---- MODULE Spec2Model ----
(***************************************************************************)
(* Signal-to-order execution and trailing-stop engine of botbinance.       *)
(*                                                                         *)
(* app.py (the webhook handlers), binance_websocket.py (the stream state   *)
(* tracker and the trailing-stop controller), utils.py (the signal         *)
(* normalizer) and binance_rest.py (the REST client) are modelled.         *)
(*                                                                         *)
(* Prices are integers in units of 0.001; percentages are integers in      *)
(* tenths of a percent, so  p * (1 - 0.2/100)  is  (p * 998) \div 1000.    *)
(* Python dicts are functions whose DOMAIN is the set of keys present.     *)
(***************************************************************************)
EXTENDS Integers, Sequences, FiniteSets, TLC

(***************************************************************************)
(* Bounds of the model.                                                    *)
(***************************************************************************)
MaxOrders == 2          \* protective orders the exchange hands ids to
MaxQueue == 1           \* ORDER_TRADE_UPDATE events in flight on the stream
MaxPos == 2             \* largest absolute position, in contracts
MaxLen == 3             \* characters after "New strategy position is"

Symbols == {"LINKUSDT"}
EntryTimestamps == {0}                        \* timestamps of entry alerts, seconds
ExitTimestamps == {0, 2, 3}                   \* timestamps of exit alerts, seconds
FillPrices == {200000}                        \* average fill prices
TickPrices == {199500, 200500, 201000}        \* prices of the price feed
TakeProfits == {0, 10}                        \* take_profit of an alert: 0 = absent, else tenths of a percent
Sides == {"BUY", "SELL"}

(***************************************************************************)
(* Program constants.                                                      *)
(***************************************************************************)
DEDUP_WINDOW == 3                   \* app.py: if diff < 3
TRAILING_STOP_PERCENT == 2          \* 0.2 percent, in tenths of a percent
ENABLE_TRAILING_THRESHOLD == 50     \* percent of the way from entry to target
DEFAULT_TAKE_PROFIT_PERCENT == 5    \* 0.5 percent, in tenths of a percent

None == 0 - 1                       \* Python's None / a falsy return value

(***************************************************************************)
(* dict operations                                                         *)
(***************************************************************************)
EmptyDict == [k \in {} |-> None]
Has(d, k) == k \in DOMAIN d
Put(d, k, v) == [x \in DOMAIN d \cup {k} |-> IF x = k THEN v ELSE d[x]]
Del(d, k) == [x \in DOMAIN d \ {k} |-> d[x]]
Get(d, k, dflt) == IF k \in DOMAIN d THEN d[k] ELSE dflt

VARIABLES
    \* app.py
    last_signal,            \* symbol -> [payload, order_response]
    \* binance_websocket.BinanceWebSocket
    sl_tracker,             \* symbol -> stop order id
    best_price,             \* symbol -> price
    trailing_stop_enabled,  \* symbol -> TRUE
    entry_price,            \* symbol -> price
    tp_target_price,        \* symbol -> price
    trailing_progress,      \* symbol -> 0 | 1
    \* the exchange
    position,               \* symbol -> signed position amount
    orders,                 \* the live protective orders
    nextId,                 \* the next order id the exchange hands out
    stream,                 \* ORDER_TRADE_UPDATE events not yet delivered
    \* observation of the handler that ran last
    last,                   \* which handler ran, with what input and result
    calls,                  \* the REST requests it issued, in order
    prevStop,               \* symbol -> trigger price of the stop placed last for the open position
    \* the signal normalizer on its own
    alert,                  \* the alert handed to parse_webhook_to_payload
    parsed,                 \* the payload it returned, or that it raised
    \* two threads inside the handlers
    ctx,                    \* thread -> where it stands, with its local variables
    \* the stream handler of binance_rest.py
    tp_tracker,             \* symbol -> id of the take-profit order placed last
    \* the request formatting and the request signing on their own
    fmt,                    \* a raw price and quantity, and the values sent for them
    signing,                \* two parameter maps, and what create_signature made of them
    \* the stream supervisor on its own
    sup                     \* reconnect_attempts, listen_key, and the threads start() made

vars == <<last_signal, sl_tracker, best_price, trailing_stop_enabled, entry_price,
          tp_target_price, trailing_progress, position, orders, nextId, stream,
          last, calls, prevStop, alert, parsed, ctx, tp_tracker, fmt, signing, sup>>

Str(v) == [kind |-> "str", v |-> v]
Num(v) == [kind |-> "num", v |-> v]
Absent == [kind |-> "absent", v |-> 0]
Text == [kind |-> "text", v |-> 0]
NoTicker == [kind |-> "absent", v |-> ""]

NoAlert ==
    [value |-> [action |-> "BUY", marker |-> FALSE, text |-> <<>>],
     trade_info |-> [ticker |-> NoTicker, contracts |-> Absent, take_profit |-> 0],
     timestamp |-> Absent]

wsVars == <<sl_tracker, best_price, trailing_stop_enabled, entry_price,
            tp_target_price, trailing_progress>>

Last(h, s, trade_type, ts, price, status) ==
    [h |-> h, s |-> s, trade_type |-> trade_type, ts |-> ts, price |-> price, status |-> status]

InitEngine ==
    /\ last_signal = EmptyDict
    /\ sl_tracker = EmptyDict
    /\ best_price = EmptyDict
    /\ trailing_stop_enabled = EmptyDict
    /\ entry_price = EmptyDict
    /\ tp_target_price = EmptyDict
    /\ trailing_progress = EmptyDict
    /\ position = [s \in Symbols |-> 0]
    /\ orders = {}
    /\ nextId = 1
    /\ stream = <<>>
    /\ last = Last("init", "", "", None, None, "")
    /\ calls = <<>>
    /\ prevStop = EmptyDict

NoFmt == [done |-> FALSE, raw_price |-> 0, raw_quantity |-> 0, stopPrice |-> 0, quantity |-> 0]
NoSigning == [done |-> FALSE]
NoSup == [started |-> FALSE]

Threads == {"exit", "price"}
Local(pc, current_price, quantity, old_id, stop_price, sl_side) ==
    [pc |-> pc, current_price |-> current_price, quantity |-> quantity,
     old_id |-> old_id, stop_price |-> stop_price, sl_side |-> sl_side]
Idle == Local("idle", 0, 0, None, 0, "")

Init ==
    /\ InitEngine
    /\ ctx = [c \in Threads |-> Idle]
    /\ tp_tracker = EmptyDict
    /\ fmt = NoFmt
    /\ signing = NoSigning
    /\ sup = NoSup
    /\ alert = NoAlert
    /\ parsed = [done |-> FALSE, ok |-> FALSE]

(***************************************************************************)
(* The whole state as one record, so that a handler is a function from the *)
(* state before it to the state after it.  calls collects the REST         *)
(* requests of the handler; ret is the value the last call returned;       *)
(* raised says that an exception is propagating.                           *)
(***************************************************************************)
St ==
    [last_signal |-> last_signal, sl_tracker |-> sl_tracker, best_price |-> best_price,
     trailing_stop_enabled |-> trailing_stop_enabled, entry_price |-> entry_price,
     tp_target_price |-> tp_target_price, trailing_progress |-> trailing_progress,
     position |-> position, orders |-> orders, nextId |-> nextId, stream |-> stream,
     tp_tracker |-> tp_tracker,
     calls |-> <<>>, ret |-> None, raised |-> FALSE, status |-> "ok"]

Opposite(side) == IF side = "BUY" THEN "SELL" ELSE "BUY"
Signed(side, qty) == IF side = "BUY" THEN qty ELSE 0 - qty
Abs(x) == IF x < 0 THEN 0 - x ELSE x
Sign(x) == IF x > 0 THEN 1 ELSE IF x < 0 THEN 0 - 1 ELSE 0

\* "{:.2f}".format(price): the nearest multiple of 0.01, ties to the even one.
Fmt2(p) ==
    LET q == p \div 10
        r == p % 10
    IN  IF r < 5 THEN q * 10
        ELSE IF r > 5 THEN (q + 1) * 10
        ELSE IF q % 2 = 0 THEN q * 10 ELSE (q + 1) * 10

\* "{:.1f}".format(quantity), the quantity in units of 0.01: the nearest
\* multiple of 0.1, ties to the even one.
Fmt1(q) ==
    LET d == q \div 10
        r == q % 10
    IN  IF r < 5 THEN d * 10
        ELSE IF r > 5 THEN (d + 1) * 10
        ELSE IF d % 2 = 0 THEN d * 10 ELSE (d + 1) * 10

\* A FILLED ORDER_TRADE_UPDATE as the exchange pushes it on the user stream.
FillEvent(s, ot, side, ap) == [s |-> s, ot |-> ot, X |-> "FILLED", S |-> side, ap |-> ap]

(***************************************************************************)
(* The exchange's side of the REST calls.                                  *)
(***************************************************************************)

\* cancelOrder: best-effort; an unknown order counts as success.
cancel_order_by_id(st, s, id, ok) ==
    [st EXCEPT !.orders = IF ok THEN {o \in @ : o.id # id} ELSE @,
               !.calls = Append(@, [op |-> "cancel_order", s |-> s, id |-> id, ok |-> ok]),
               !.ret = None]

\* cancelAllOrders: best-effort.
cancel_all_orders(st, s, ok) ==
    [st EXCEPT !.orders = IF ok THEN {o \in @ : o.s # s} ELSE @,
               !.calls = Append(@, [op |-> "cancel_all", s |-> s, ok |-> ok]),
               !.ret = None]

\* closePosition: a flat position is a no-op success; otherwise a market
\* order for the opposite side and the full size, filled at fp.
close_position(st, s, ok, fp) ==
    LET amt == st.position[s]
        side == IF amt > 0 THEN "SELL" ELSE "BUY"
    IN  IF amt = 0 \/ ~ok
        THEN [st EXCEPT !.calls = Append(@, [op |-> "close_position", s |-> s, sent |-> FALSE]),
                        !.ret = None]
        ELSE [st EXCEPT !.position[s] = 0,
                        !.stream = Append(@, FillEvent(s, "MARKET", side, fp)),
                        !.calls = Append(@, [op |-> "close_position", s |-> s, sent |-> TRUE]),
                        !.ret = fp]

\* placeStopLossOrder: the id of the new STOP_MARKET order, or None.
place_stop_loss_order(st, s, side, qty, price, ok) ==
    IF ok
    THEN [st EXCEPT !.orders = @ \cup {[id |-> st.nextId, kind |-> "SL", s |-> s,
                                        side |-> side, qty |-> qty, price |-> 0]},
                    !.nextId = @ + 1,
                    !.calls = Append(@, [op |-> "place_sl", s |-> s, side |-> side,
                                         price |-> price, id |-> st.nextId,
                                         reduceOnly |-> TRUE]),
                    !.ret = st.nextId]
    ELSE [st EXCEPT !.calls = Append(@, [op |-> "place_sl", s |-> s, side |-> side,
                                         price |-> price, id |-> None,
                                         reduceOnly |-> TRUE]),
                    !.ret = None]

\* A take-profit placement that closes the position when it fails.
place_take_profit_order_UndoEntry(st, s, side, quantity, take_profit_price, ok) ==
    IF quantity.kind # "num" \/ ~ok
    THEN [st EXCEPT !.position[s] = 0,
                    !.calls = Append(@, [op |-> "close_position", s |-> s, sent |-> TRUE]),
                    !.ret = None]
    ELSE [st EXCEPT !.orders = @ \cup {[id |-> st.nextId, kind |-> "TP", s |-> s,
                                        side |-> side, qty |-> quantity.v,
                                        price |-> Fmt2(take_profit_price)]},
                    !.nextId = @ + 1,
                    !.calls = Append(@, [op |-> "place_tp", s |-> s, side |-> side,
                                         price |-> Fmt2(take_profit_price), id |-> st.nextId,
                                         reduceOnly |-> FALSE]),
                    !.ret = st.nextId]

\* BinanceRESTClient.place_take_profit_order.  "{:.1f}".format(quantity)
\* raises for a str quantity; the except clause logs it and None is returned.
place_take_profit_order(st, s, side, quantity, take_profit_price, ok) ==
    IF quantity.kind # "num"
    THEN [st EXCEPT !.ret = None]
    ELSE IF ok
    THEN [st EXCEPT !.orders = @ \cup {[id |-> st.nextId, kind |-> "TP", s |-> s,
                                        side |-> side, qty |-> quantity.v,
                                        price |-> Fmt2(take_profit_price)]},
                    !.nextId = @ + 1,
                    !.calls = Append(@, [op |-> "place_tp", s |-> s, side |-> side,
                                         price |-> Fmt2(take_profit_price), id |-> st.nextId,
                                         reduceOnly |-> FALSE]),
                    !.ret = st.nextId]
    ELSE [st EXCEPT !.calls = Append(@, [op |-> "place_tp", s |-> s, side |-> side,
                                         price |-> Fmt2(take_profit_price), id |-> None,
                                         reduceOnly |-> FALSE]),
                    !.ret = None]

\* A market order that is sent a second time when the exchange rejects it.
place_market_order_Retry(st, s, side, quantity, m, fp, avgResp) ==
    IF m = "raise" \/ quantity.kind = "text"
    THEN [st EXCEPT !.raised = TRUE, !.ret = None]
    ELSE IF m = "rejected"
    THEN [st EXCEPT !.calls = @ \o <<[op |-> "market", s |-> s, side |-> side, ok |-> FALSE],
                                     [op |-> "market", s |-> s, side |-> side, ok |-> FALSE]>>,
                    !.ret = [ok |-> FALSE]]
    ELSE [st EXCEPT !.position[s] = @ + Signed(side, quantity.v),
                    !.stream = Append(@, FillEvent(s, "MARKET", side, fp)),
                    !.calls = Append(@, [op |-> "market", s |-> s, side |-> side, ok |-> TRUE]),
                    !.ret = [ok |-> TRUE, avgPrice |-> avgResp]]

\* BinanceRESTClient.place_market_order.  m: "ok" (status 200), "rejected"
\* (another status: None is returned) or "raise" (set_leverage,
\* get_server_time or the POST raised).  The response carries avgResp as
\* avgPrice: the fill price, or 0 when the acknowledgment has none.
place_market_order(st, s, side, quantity, m, fp, avgResp) ==
    \* float(quantity) raises ValueError for a str that is no number
    IF m = "raise" \/ quantity.kind = "text"
    THEN [st EXCEPT !.raised = TRUE, !.ret = None]
    ELSE IF m = "rejected"
    THEN [st EXCEPT !.calls = Append(@, [op |-> "market", s |-> s, side |-> side, ok |-> FALSE]),
                    !.ret = [ok |-> FALSE]]
    ELSE [st EXCEPT !.position[s] = @ + Signed(side, quantity.v),
                    !.stream = Append(@, FillEvent(s, "MARKET", side, fp)),
                    !.calls = Append(@, [op |-> "market", s |-> s, side |-> side, ok |-> TRUE]),
                    !.ret = [ok |-> TRUE, avgPrice |-> avgResp]]

(***************************************************************************)
(* binance_websocket.BinanceWebSocket: the trailing-stop controller.       *)
(***************************************************************************)

\* get_position_amt: the positionRisk query.  ans is the position amount,
\* or 0.0 when the query failed or the symbol is not listed.
get_position_amt(st, s, ans) ==
    [st EXCEPT !.calls = Append(@, [op |-> "get_position", s |-> s, ans |-> ans]),
               !.ret = ans]

\* A controller that places at any progress.
ReachedThreshold_Always(current_distance, distance) == TRUE

\* progress_pct = current_distance / distance * 100 has reached the threshold
ReachedThreshold(current_distance, distance) ==
    current_distance * 100 >= ENABLE_TRAILING_THRESHOLD * distance

\* A trigger price on the wrong side of the current price.
StopPrice_WrongSide(is_long, current_price, trailing_stop_percent) ==
    IF is_long
    THEN (current_price * (1000 + trailing_stop_percent)) \div 1000
    ELSE (current_price * (1000 - trailing_stop_percent)) \div 1000

\* the trigger price: current_price * (1 -/+ trailing_stop_percent / 100)
StopPrice(is_long, current_price, trailing_stop_percent) ==
    IF is_long
    THEN (current_price * (1000 - trailing_stop_percent)) \div 1000
    ELSE (current_price * (1000 + trailing_stop_percent)) \div 1000

\* position_amt is what get_position_amt returned: the position, or 0.0
\* when the query failed.
update_trailing_stop(st, s, current_price, qty, position_amt, cancelOk, placeOk) ==
    LET st0 == get_position_amt(st, s, position_amt)
    IN
    IF position_amt = 0 THEN st0
    ELSE
    LET is_long == position_amt > 0
        stop_price == StopPrice(is_long, current_price, TRAILING_STOP_PERCENT)
        sl_side == IF is_long THEN "SELL" ELSE "BUY"
        st1 == IF Has(st0.sl_tracker, s)
               THEN [cancel_order_by_id(st0, s, st0.sl_tracker[s], cancelOk)
                         EXCEPT !.sl_tracker = Del(@, s)]
               ELSE st0
        st2 == place_stop_loss_order(st1, s, sl_side, qty, stop_price, placeOk)
    IN  IF st2.ret # None
        THEN [st2 EXCEPT !.sl_tracker = Put(@, s, st2.ret)]
        ELSE st2

enable_or_update_trailing(st, s, current_price, qty, position_amt, cancelOk, placeOk) ==
    update_trailing_stop([st EXCEPT !.trailing_stop_enabled = Put(@, s, TRUE)],
                         s, current_price, qty, position_amt, cancelOk, placeOk)

\* pos1 and pos2 are the answers of the two get_position_amt queries.
check_trailing_progress(st, s, current_price, pos1, pos2, cancelOk, placeOk) ==
    IF ~Has(st.entry_price, s) \/ ~Has(st.tp_target_price, s) THEN st
    ELSE
    LET st0 == get_position_amt(st, s, pos1)
    IN
    IF pos1 = 0 THEN st0
    ELSE
    LET entry == st.entry_price[s]
        target == st.tp_target_price[s]
        is_long == pos1 > 0
        distance == IF is_long THEN target - entry ELSE entry - target
        current_distance == IF is_long THEN current_price - entry ELSE entry - current_price
    IN  IF distance <= 0 THEN st0
        ELSE IF ~ReachedThreshold(current_distance, distance) THEN st0
        ELSE IF Get(st.trailing_progress, s, 0) = 0
        THEN enable_or_update_trailing([st0 EXCEPT !.trailing_progress = Put(@, s, 1)],
                                       s, current_price, Abs(pos1), pos2, cancelOk, placeOk)
        ELSE st0

\* the take-profit target of a fill: avg_price * (1 +/- take_profit_pct / 100)
TargetPrice(is_long, avg_price, take_profit_pct) ==
    IF is_long
    THEN (avg_price * (1000 + take_profit_pct)) \div 1000
    ELSE (avg_price * (1000 - take_profit_pct)) \div 1000

\* ev is the event; pos is the answer of get_position_amt.
handle_order_trade_update(st0, ev, pos) ==
    LET s == ev.s
        avg_price == ev.ap
        st == get_position_amt(st0, s, pos)
    IN  IF ev.ot = "MARKET" /\ ev.X = "FILLED"
        THEN IF pos > 0
             THEN [st EXCEPT !.entry_price = Put(@, s, avg_price),
                             !.tp_target_price =
                                 Put(@, s, TargetPrice(TRUE, avg_price, DEFAULT_TAKE_PROFIT_PERCENT)),
                             !.trailing_progress = Put(@, s, 0)]
             ELSE IF pos < 0
             THEN [st EXCEPT !.entry_price = Put(@, s, avg_price),
                             !.tp_target_price =
                                 Put(@, s, TargetPrice(FALSE, avg_price, DEFAULT_TAKE_PROFIT_PERCENT)),
                             !.trailing_progress = Put(@, s, 0)]
             ELSE [st EXCEPT !.entry_price = Del(@, s),
                             !.tp_target_price = Del(@, s)]
        \* a filled STOP_MARKET or TAKE_PROFIT_MARKET order is logged only
        ELSE st0

handle_account_update(st, s, pa) == st

(***************************************************************************)
(* app.py: the webhook handlers.                                           *)
(***************************************************************************)

\* lp is what get_last_price answers when it is asked: a price, or 0.
process_buy_sell_signal(st, payload, m, fp, avgResp, lp, tpOk) ==
    LET s == payload.symbol
        st1 == place_market_order(st, s, payload.side, payload.quantity, m, fp, avgResp)
        response == st1.ret
    IN  IF st1.raised THEN [st1 EXCEPT !.status = "error"]
        ELSE
        LET st2 == [st1 EXCEPT
                      !.last_signal = Put(@, s, [payload |-> [timestamp |-> payload.timestamp,
                                                             quantity |-> payload.quantity.v],
                                                 order_response |-> response]),
                      !.status = IF response.ok THEN "ok" ELSE "null"]
            tp_percent == payload.take_profit
        IN  IF tp_percent = 0 THEN st2
            \* response is None: response.get raises, the except clause logs it
            ELSE IF ~response.ok THEN st2
            ELSE
            LET avg_price == IF response.avgPrice = 0 THEN lp ELSE response.avgPrice
                tp_side == IF payload.side = "BUY" THEN "SELL" ELSE "BUY"
                tp_price == IF payload.side = "BUY"
                            THEN (avg_price * (1000 + tp_percent)) \div 1000
                            ELSE (avg_price * (1000 - tp_percent)) \div 1000
            IN  IF avg_price = 0 THEN st2
                ELSE [place_take_profit_order(st2, s, tp_side, payload.quantity,
                                              tp_price, tpOk)
                          EXCEPT !.ret = response]

\* A window that is closed at its upper end.
IsInstantExit_Inclusive(diff) == diff <= DEDUP_WINDOW

\* if diff < 3
IsInstantExit(diff) == diff < DEDUP_WINDOW

process_exit_signal(st, payload, lp, pos, cancelOk, placeOk, closeOk, fp) ==
    LET s == payload.symbol
    IN  \* float(payload["timestamp"]) raises ValueError
        IF payload.timestamp.kind = "text" THEN [st EXCEPT !.raised = TRUE, !.status = "error"]
        ELSE IF Has(st.last_signal, s)
        THEN
        LET current_ts == payload.timestamp.v
            stored == st.last_signal[s]
            prev_ts == stored.payload.timestamp.v
            diff == current_ts - prev_ts
        IN  IF stored.payload.timestamp.kind = "text"
            THEN [st EXCEPT !.raised = TRUE, !.status = "error"]
            ELSE IF IsInstantExit(diff)
            THEN
            LET st1 == [st EXCEPT !.trailing_stop_enabled = Put(@, s, TRUE)]
                order_resp == stored.order_response
            IN  \* order_response is None: order_resp.get raises AttributeError
                IF ~order_resp.ok THEN [st1 EXCEPT !.raised = TRUE, !.status = "error"]
                ELSE
                LET avg_price == IF order_resp.avgPrice = 0 THEN lp ELSE order_resp.avgPrice
                    st2 == IF avg_price > 0
                           THEN [st1 EXCEPT !.best_price = Put(@, s, avg_price)]
                           ELSE st1
                    quantity == stored.payload.quantity
                IN  IF ~Has(st2.sl_tracker, s)
                    THEN \* best_price[symbol] raises KeyError when no price was ever set
                         IF ~Has(st2.best_price, s)
                         THEN [st2 EXCEPT !.raised = TRUE, !.status = "error"]
                         ELSE [update_trailing_stop(st2, s, st2.best_price[s], quantity,
                                                    pos, cancelOk, placeOk)
                                   EXCEPT !.last_signal = Del(@, s),
                                          !.status = "trailing_enabled"]
                    ELSE [st2 EXCEPT !.last_signal = Del(@, s),
                                     !.status = "trailing_enabled"]
            ELSE [close_position(cancel_all_orders(st, s, cancelOk), s, closeOk, fp)
                      EXCEPT !.last_signal = Del(@, s)]
        ELSE close_position(st, s, closeOk, fp)

(***************************************************************************)
(* utils.py: the signal normalizer.                                        *)
(*                                                                         *)
(* An alert is [value, trade_info, timestamp].  value is                   *)
(* [action, marker, text]: the action word of the free text, whether       *)
(* "New strategy position is" occurs in it, and the characters after its   *)
(* last occurrence.  A field that may be missing is a record with a        *)
(* "kind": "absent", "num" (a JSON number v), "str" (a string that float() *)
(* turns into v) or "text" (a non-empty string that float() rejects).      *)
(***************************************************************************)
Digits == {"0", "1"}
Alphabet == {"-", "0", "1", ".", " ", "x"}

RECURSIVE LStrip(_)
LStrip(t) == IF t # <<>> /\ Head(t) = " " THEN LStrip(Tail(t)) ELSE t

RECURSIVE RStrip(_)
RStrip(t) == IF t # <<>> /\ t[Len(t)] = " " THEN RStrip(SubSeq(t, 1, Len(t) - 1)) ELSE t

\* str.strip()
Strip(t) == RStrip(LStrip(t))

\* str.rstrip(".")
RECURSIVE RStripDots(_)
RStripDots(t) == IF t # <<>> /\ t[Len(t)] = "." THEN RStripDots(SubSeq(t, 1, Len(t) - 1)) ELSE t

\* float(str) on the alphabet: surrounding blanks, an optional sign, digits
\* with at most one point and at least one digit.  sign is the sign of the
\* value: 0 for a zero of either sign.
ParseFloat(t) ==
    LET u == Strip(t)
        neg == u # <<>> /\ Head(u) = "-"
        body == IF neg THEN Tail(u) ELSE u
        idx == 1..Len(body)
        wellFormed == /\ \A i \in idx : body[i] \in Digits \cup {"."}
                      /\ Cardinality({i \in idx : body[i] = "."}) <= 1
                      /\ \E i \in idx : body[i] \in Digits
        zero == \A i \in idx : body[i] # "1"
    IN  IF ~wellFormed THEN [ok |-> FALSE, sign |-> 0]
        ELSE [ok |-> TRUE, sign |-> IF zero THEN 0 ELSE IF neg THEN 0 - 1 ELSE 1]

Failed == [ok |-> FALSE]

\* A position number that counts a zero position as an entry.
TradeType_ZeroEnters(new_position) ==
    IF new_position < 0 THEN "SELL" ELSE "BUY"

\* if new_position == 0 / elif new_position < 0 / else
TradeType(new_position) ==
    IF new_position = 0 THEN "EXIT"
    ELSE IF new_position < 0 THEN "SELL" ELSE "BUY"

parse_webhook_to_payload(webhook_data) ==
    LET value == webhook_data.value
        trade_info == webhook_data.trade_info
        timestamp == webhook_data.timestamp
    IN  \* if not timestamp: raise ValueError
        IF timestamp.kind = "absent" \/ (timestamp.kind = "num" /\ timestamp.v = 0) THEN Failed
        ELSE
        LET new_position == IF value.marker
                            THEN ParseFloat(RStripDots(Strip(value.text)))
                            ELSE [ok |-> TRUE, sign |-> 0]
            trade_type == TradeType(new_position.sign)
            side == IF new_position.sign = 0 THEN "BUY"
                    ELSE IF new_position.sign < 0 THEN "SELL" ELSE "BUY"
        IN  IF ~new_position.ok THEN Failed            \* float() raises ValueError
            ELSE IF trade_info.ticker.kind = "absent" THEN Failed     \* KeyError
            ELSE IF trade_info.contracts.kind = "absent" THEN Failed  \* KeyError
            ELSE [ok |-> TRUE,
                  symbol |-> trade_info.ticker.v,
                  side |-> side,
                  quantity |-> trade_info.contracts,
                  take_profit |-> trade_info.take_profit,
                  trade_type |-> trade_type,
                  timestamp |-> timestamp]

(***************************************************************************)
(* The state machine.                                                      *)
(***************************************************************************)
\* The alerts the signal source sends to the webhook.
StateAlerts ==
    \* entries
    [value : [action : {"BUY"}, marker : {TRUE}, text : {<<"1">>, <<"-", "1">>}],
     trade_info : [ticker : {Str(s) : s \in Symbols},
                   contracts : {Str(1), Num(1)},
                   take_profit : TakeProfits],
     timestamp : {Str(ts) : ts \in EntryTimestamps}]
    \cup
    \* exits, the last one without the position number
    [value : {[action |-> "SELL", marker |-> TRUE, text |-> <<"0", ".">>],
              [action |-> "SELL", marker |-> FALSE, text |-> <<>>]},
     trade_info : [ticker : {Str(s) : s \in Symbols}, contracts : {Str(1)}, take_profit : {0}],
     timestamp : {Str(ts) : ts \in ExitTimestamps}]
    \cup
    \* an alert without its timestamp
    [value : {[action |-> "BUY", marker |-> TRUE, text |-> <<"1">>]},
     trade_info : [ticker : {Str(s) : s \in Symbols}, contracts : {Str(1)}, take_profit : {0}],
     timestamp : {Absent}]

\* The stop orders a handler placed for s, in order.
PlacedStops(cs, s) ==
    SelectSeq(cs, LAMBDA c : c.op = "place_sl" /\ c.s = s /\ c.id # None)

NextPrevStop(st) ==
    LET keep == {s \in Symbols :
                    /\ st.position[s] # 0
                    /\ Sign(st.position[s]) = Sign(position[s])
                    /\ (Has(prevStop, s) \/ PlacedStops(st.calls, s) # <<>>)}
    IN  [s \in keep |->
            IF PlacedStops(st.calls, s) # <<>>
            THEN PlacedStops(st.calls, s)[Len(PlacedStops(st.calls, s))].price
            ELSE prevStop[s]]

Commit(st, lst) ==
    /\ last_signal' = st.last_signal
    /\ sl_tracker' = st.sl_tracker
    /\ best_price' = st.best_price
    /\ trailing_stop_enabled' = st.trailing_stop_enabled
    /\ entry_price' = st.entry_price
    /\ tp_target_price' = st.tp_target_price
    /\ trailing_progress' = st.trailing_progress
    /\ position' = st.position
    /\ orders' = st.orders
    /\ nextId' = st.nextId
    /\ stream' = st.stream
    /\ tp_tracker' = st.tp_tracker
    /\ calls' = st.calls
    /\ last' = lst
    /\ prevStop' = NextPrevStop(st)
    /\ UNCHANGED <<alert, parsed, ctx, fmt, signing, sup>>

\* What get_position_amt can answer: the position, or 0.0 when the query failed.
PositionAnswers(s) == {position[s], 0}

WebhookEntry(payload) ==
    /\ Len(stream) < MaxQueue
    /\ nextId <= MaxOrders
    /\ Abs(position[payload.symbol] + Signed(payload.side, 1)) <= MaxPos
    /\ \E m \in {"ok", "rejected", "raise"} :
       \E fp \in IF m = "ok" THEN FillPrices ELSE {0} :
       \E avgResp \in {0, fp} :
       \E lp \in IF m = "ok" /\ avgResp = 0 /\ payload.take_profit # 0
                 THEN {0} \cup FillPrices ELSE {0} :
       \E tpOk \in IF m = "ok" /\ payload.take_profit # 0 /\ payload.quantity.kind = "num"
                      /\ (avgResp # 0 \/ lp # 0)
                   THEN BOOLEAN ELSE {FALSE} :
          LET st == process_buy_sell_signal(St, payload, m, fp, avgResp, lp, tpOk)
          IN  Commit(st, Last("webhook", payload.symbol, payload.trade_type,
                              payload.timestamp.v, fp, st.status))

WebhookExit(payload) ==
    /\ Len(stream) < MaxQueue
    /\ nextId <= MaxOrders
    /\ LET s == payload.symbol
           instant == /\ Has(last_signal, s)
                      /\ IsInstantExit(payload.timestamp.v - last_signal[s].payload.timestamp.v)
           asksPrice == instant /\ last_signal[s].order_response.ok
                                /\ last_signal[s].order_response.avgPrice = 0
       IN
       \E lp \in IF asksPrice THEN {0} \cup FillPrices ELSE {0} :
       \E pos \in IF instant THEN PositionAnswers(s) ELSE {0} :
       \E placeOk \in IF instant /\ pos # 0 THEN BOOLEAN ELSE {FALSE} :
       \E cancelOk \in IF instant THEN {FALSE} ELSE BOOLEAN :
       \E closeOk \in IF instant \/ position[s] = 0 THEN {FALSE} ELSE BOOLEAN :
       \E fp \in FillPrices :
          LET st == process_exit_signal(St, payload, lp, pos, cancelOk, placeOk, closeOk, fp)
          IN  Commit(st, Last("webhook", payload.symbol, "EXIT",
                              payload.timestamp.v, None, st.status))

\* app.webhook: parse, dispatch on trade_type, answer 500 on any exception.
Webhook ==
    \E data \in StateAlerts :
        LET payload == parse_webhook_to_payload(data)
        IN  IF ~payload.ok
            THEN Commit([St EXCEPT !.raised = TRUE, !.status = "error"],
                        Last("webhook", "", "none", None, None, "error"))
            ELSE IF payload.trade_type \in {"BUY", "SELL"}
            THEN WebhookEntry(payload)
            ELSE WebhookExit(payload)

\* on_message for an ORDER_TRADE_UPDATE: the oldest event of the stream.
OrderTradeUpdate ==
    /\ stream # <<>>
    /\ LET ev == Head(stream)
       IN  \E pos \in PositionAnswers(ev.s) :
              Commit([handle_order_trade_update(St, ev, pos) EXCEPT !.stream = Tail(@)],
                     Last("order_trade_update", ev.s, ev.ot, None, ev.ap, "ok"))

\* on_message for an ACCOUNT_UPDATE carrying the position amount of s.
AccountUpdate ==
    \E s \in Symbols :
        Commit(handle_account_update(St, s, position[s]),
               Last("account_update", s, "none", None, None, "ok"))

\* The price feed calls check_trailing_progress with the current price.
PriceUpdate ==
    /\ nextId <= MaxOrders
    /\ \E s \in Symbols, current_price \in TickPrices :
       \E pos1 \in PositionAnswers(s) :
       \E pos2 \in IF pos1 = 0 THEN {0} ELSE PositionAnswers(s) :
       \E cancelOk \in IF pos2 # 0 /\ Has(sl_tracker, s) THEN BOOLEAN ELSE {TRUE} :
       \E placeOk \in IF pos2 # 0 THEN BOOLEAN ELSE {FALSE} :
          Commit(check_trailing_progress(St, s, current_price, pos1, pos2, cancelOk, placeOk),
                 Last("price_update", s, "none", None, current_price, "ok"))

\* The exchange triggers a live stop order: reduce-only, so it fills only
\* against a position of the other side, for at most the position's size.
ExchangeStopFill ==
    /\ Len(stream) < MaxQueue
    /\ \E o \in orders :
          /\ o.kind = "SL"
          /\ Sign(position[o.s]) = 0 - Sign(Signed(o.side, 1))
          /\ LET q == IF o.qty < Abs(position[o.s]) THEN o.qty ELSE Abs(position[o.s])
             IN  Commit([St EXCEPT !.orders = @ \ {o},
                                   !.position[o.s] = @ + Signed(o.side, q),
                                   !.stream = Append(@, FillEvent(o.s, "STOP_MARKET", o.side, 0))],
                        Last("exchange_fill", o.s, "STOP_MARKET", None, None, "ok"))

\* The exchange triggers a live take-profit order: the request of
\* place_take_profit_order carries no reduceOnly, so it fills as sent.
ExchangeTpFill ==
    /\ Len(stream) < MaxQueue
    /\ \E o \in orders :
          /\ o.kind = "TP"
          /\ Abs(position[o.s] + Signed(o.side, o.qty)) <= MaxPos
          /\ Commit([St EXCEPT !.orders = @ \ {o},
                               !.position[o.s] = @ + Signed(o.side, o.qty),
                               !.stream = Append(@, FillEvent(o.s, "TAKE_PROFIT_MARKET", o.side, 0))],
                    Last("exchange_fill", o.s, "TAKE_PROFIT_MARKET", None, None, "ok"))

Next ==
    \/ Webhook
    \/ OrderTradeUpdate
    \/ AccountUpdate
    \/ PriceUpdate
    \/ ExchangeStopFill
    \/ ExchangeTpFill

Spec == Init /\ [][Next]_vars

(***************************************************************************)
(* The signal normalizer on its own: every alert with a text of at most    *)
(* MaxLen characters is handed to parse_webhook_to_payload.                *)
(***************************************************************************)
Texts == UNION {[1..n -> Alphabet] : n \in 0..MaxLen}

ParseAlerts ==
    [value : [action : {"BUY", "SELL"}, marker : BOOLEAN, text : Texts],
     trade_info : [ticker : {Str("LINKUSDT"), NoTicker},
                   contracts : {Str(1), Absent},
                   take_profit : {0}],
     timestamp : {Str(3), Text, Absent}]

InitParse ==
    /\ InitEngine
    /\ ctx = [c \in Threads |-> Idle]
    /\ tp_tracker = EmptyDict
    /\ fmt = NoFmt
    /\ signing = NoSigning
    /\ sup = NoSup
    /\ alert \in ParseAlerts
    /\ parsed = [done |-> FALSE, ok |-> FALSE]

Normalize ==
    /\ ~parsed.done
    /\ parsed' = [done |-> TRUE] @@ parse_webhook_to_payload(alert)
    /\ UNCHANGED <<last_signal, sl_tracker, best_price, trailing_stop_enabled, entry_price,
                   tp_target_price, trailing_progress, position, orders, nextId, stream,
                   last, calls, prevStop, alert, ctx, tp_tracker, fmt, signing, sup>>

NextParse == Normalize

SpecParse == InitParse /\ [][NextParse]_vars

(***************************************************************************)
(* The numerals an alert can carry: an optional sign, digits, an optional  *)
(* fraction; in the alert the numeral follows blanks and may be followed   *)
(* by the full stop that ends the sentence.                                *)
(***************************************************************************)
DigitSeqs(lo, hi) == UNION {[1..n -> Digits] : n \in lo..hi}
Blanks(n) == [i \in 1..n |-> " "]

NumeralTable ==
    {r \in
        {[text |-> Blanks(lead) \o (IF neg THEN <<"-">> ELSE <<>>) \o ip
                     \o (IF fr = <<>> THEN <<>> ELSE <<".">> \o fr)
                     \o (IF stop THEN <<".">> ELSE <<>>),
          sign |-> IF \A i \in 1..Len(ip \o fr) : (ip \o fr)[i] = "0" THEN 0
                   ELSE IF neg THEN 0 - 1 ELSE 1] :
            lead \in 0..1, neg \in BOOLEAN, ip \in DigitSeqs(1, MaxLen),
            fr \in DigitSeqs(0, MaxLen - 2), stop \in BOOLEAN} :
        Len(r.text) <= MaxLen}

\* The alert is valid: it carries a numeral, a timestamp, a ticker and contracts.
ValidAlert(a) ==
    /\ a.value.marker
    /\ \E r \in NumeralTable : r.text = a.value.text
    /\ a.timestamp.kind = "str"
    /\ a.trade_info.ticker.kind = "str"
    /\ a.trade_info.contracts.kind = "str"

TradeTypeOf(sign) == IF sign = 0 THEN "EXIT" ELSE IF sign < 0 THEN "SELL" ELSE "BUY"

\* C6: for every valid alert the trade type is EXIT iff the position number
\* of the text is zero, SELL iff it is negative and BUY iff it is positive,
\* whatever the action word; for BUY and SELL, side equals the trade type.
C6_TradeTypeFromPosition ==
    (parsed.done /\ ValidAlert(alert)) =>
        /\ parsed.ok
        /\ \A r \in NumeralTable :
              r.text = alert.value.text =>
                 /\ parsed.trade_type = TradeTypeOf(r.sign)
                 /\ (r.sign # 0 => parsed.side = parsed.trade_type)

C6_Witness ==
    /\ parsed.done
    /\ ValidAlert(alert)
    /\ alert.value.action = "BUY"
    /\ alert.value.text = <<"-", "1", ".">>
    /\ parsed.ok
    /\ parsed.trade_type = "SELL"

\* C7: the normalizer fails, and produces no intent, when the position
\* number is absent from the text or is not a number, when the timestamp is
\* absent or not a number, and when ticker or contracts is missing.
C7_MalformedRejected ==
    (/\ parsed.done
     /\ \/ ~alert.value.marker
        \/ \E i \in 1..Len(alert.value.text) : alert.value.text[i] = "x"
        \/ alert.timestamp.kind \in {"absent", "text"}
        \/ alert.trade_info.ticker.kind = "absent"
        \/ alert.trade_info.contracts.kind = "absent")
    => ~parsed.ok

(***************************************************************************)
(* The webhook thread and the stream thread inside the handlers.  Neither  *)
(* app.py nor binance_websocket.py takes a lock; a thread can be switched  *)
(* out wherever it waits for the answer of a REST call, so each step below *)
(* runs from one answer to the next request.                               *)
(***************************************************************************)
ConcSymbol == "LINKUSDT"

\* The engine after a BUY and its fill, with no stop placed yet, or with
\* the stop of an earlier price update and a second BUY and fill.
InitConc ==
    /\ \E tracked \in BOOLEAN :
          /\ position = [s \in Symbols |-> IF tracked THEN 2 ELSE 1]
          /\ sl_tracker = IF tracked THEN Put(EmptyDict, ConcSymbol, 1) ELSE EmptyDict
          /\ orders = IF tracked
                      THEN {[id |-> 1, kind |-> "SL", s |-> ConcSymbol, side |-> "SELL",
                             qty |-> 1, price |-> 0]}
                      ELSE {}
          /\ nextId = IF tracked THEN 2 ELSE 1
          /\ trailing_stop_enabled = IF tracked THEN Put(EmptyDict, ConcSymbol, TRUE) ELSE EmptyDict
    /\ last_signal = Put(EmptyDict, ConcSymbol,
                         [payload |-> [timestamp |-> Str(0), quantity |-> 1],
                          order_response |-> [ok |-> TRUE, avgPrice |-> 200000]])
    /\ best_price = EmptyDict
    /\ entry_price = Put(EmptyDict, ConcSymbol, 200000)
    /\ tp_target_price = Put(EmptyDict, ConcSymbol, 201000)
    /\ trailing_progress = Put(EmptyDict, ConcSymbol, 0)
    /\ stream = <<>>
    /\ last = Last("init", "", "", None, None, "")
    /\ calls = <<>>
    /\ prevStop = EmptyDict
    /\ alert = NoAlert
    /\ parsed = [done |-> FALSE, ok |-> FALSE]
    /\ ctx = [c \in Threads |-> Idle]
    /\ tp_tracker = EmptyDict
    /\ fmt = NoFmt
    /\ signing = NoSigning
    /\ sup = NoSup

\* The shared state as the thread finds it; calls collects every request.
StConc == [St EXCEPT !.calls = calls]

CommitConc(st, c, loc) ==
    /\ last_signal' = st.last_signal
    /\ sl_tracker' = st.sl_tracker
    /\ best_price' = st.best_price
    /\ trailing_stop_enabled' = st.trailing_stop_enabled
    /\ entry_price' = st.entry_price
    /\ tp_target_price' = st.tp_target_price
    /\ trailing_progress' = st.trailing_progress
    /\ position' = st.position
    /\ orders' = st.orders
    /\ nextId' = st.nextId
    /\ stream' = st.stream
    /\ tp_tracker' = st.tp_tracker
    /\ calls' = st.calls
    /\ ctx' = [ctx EXCEPT ![c] = loc]
    /\ UNCHANGED <<last, prevStop, alert, parsed, fmt, signing, sup>>

\* update_trailing_stop has returned to its caller: process_exit_signal
\* deletes last_signal[symbol]; enable_or_update_trailing just returns.
Returned(st, c) ==
    IF c = "exit" THEN [st EXCEPT !.last_signal = Del(@, ConcSymbol)] ELSE st

\* process_exit_signal on an instant EXIT, up to the position query of
\* update_trailing_stop.
ExitStart ==
    /\ ctx["exit"].pc = "idle"
    /\ Has(last_signal, ConcSymbol)
    /\ \E ts \in ExitTimestamps :
          LET s == ConcSymbol
              stored == last_signal[s]
              avg_price == stored.order_response.avgPrice
              st1 == [StConc EXCEPT !.trailing_stop_enabled = Put(@, s, TRUE),
                                    !.best_price = Put(@, s, avg_price)]
          IN  /\ IsInstantExit(ts - stored.payload.timestamp.v)
              /\ avg_price > 0
              /\ IF ~Has(sl_tracker, s)
                 THEN CommitConc(st1, "exit",
                                 Local("query", avg_price, stored.payload.quantity, None, 0, ""))
                 ELSE CommitConc(Returned(st1, "exit"), "exit", [Idle EXCEPT !.pc = "done"])

\* check_trailing_progress up to its position query.
PriceStart ==
    /\ ctx["price"].pc = "idle"
    /\ \E current_price \in TickPrices :
          IF ~Has(entry_price, ConcSymbol) \/ ~Has(tp_target_price, ConcSymbol)
          THEN CommitConc(StConc, "price", [Idle EXCEPT !.pc = "done"])
          ELSE CommitConc(StConc, "price", Local("progress", current_price, 0, None, 0, ""))

\* check_trailing_progress from the answer of its position query to the
\* position query of update_trailing_stop.
PriceProgress ==
    /\ ctx["price"].pc = "progress"
    /\ \E pos_amt \in PositionAnswers(ConcSymbol) :
          LET s == ConcSymbol
              current_price == ctx["price"].current_price
              st0 == get_position_amt(StConc, s, pos_amt)
              is_long == pos_amt > 0
              entry == entry_price[s]
              target == tp_target_price[s]
              distance == IF is_long THEN target - entry ELSE entry - target
              current_distance == IF is_long THEN current_price - entry ELSE entry - current_price
              finished == [Idle EXCEPT !.pc = "done"]
          IN  IF pos_amt = 0 \/ ~Has(entry_price, s) \/ ~Has(tp_target_price, s)
              THEN CommitConc(st0, "price", finished)
              ELSE IF distance <= 0 \/ ~ReachedThreshold(current_distance, distance)
              THEN CommitConc(st0, "price", finished)
              ELSE IF Get(trailing_progress, s, 0) = 0
              THEN CommitConc([st0 EXCEPT !.trailing_progress = Put(@, s, 1),
                                          !.trailing_stop_enabled = Put(@, s, TRUE)],
                              "price", Local("query", current_price, Abs(pos_amt), None, 0, ""))
              ELSE CommitConc(st0, "price", finished)

\* update_trailing_stop from the answer of get_position_amt to the cancel
\* request, or to the placement request when no id is tracked.
UtsQuery(c) ==
    /\ ctx[c].pc = "query"
    /\ \E position_amt \in PositionAnswers(ConcSymbol) :
          LET s == ConcSymbol
              st0 == get_position_amt(StConc, s, position_amt)
              is_long == position_amt > 0
              stop_price == StopPrice(is_long, ctx[c].current_price, TRAILING_STOP_PERCENT)
              sl_side == IF is_long THEN "SELL" ELSE "BUY"
          IN  IF position_amt = 0
              THEN CommitConc(Returned(st0, c), c, [Idle EXCEPT !.pc = "done"])
              ELSE IF Has(sl_tracker, s)
              THEN CommitConc(st0, c, Local("cancel", ctx[c].current_price, ctx[c].quantity,
                                            sl_tracker[s], stop_price, sl_side))
              ELSE CommitConc(st0, c, Local("place", ctx[c].current_price, ctx[c].quantity,
                                            None, stop_price, sl_side))

\* update_trailing_stop from the answer of the cancel to the placement
\* request: del self.sl_tracker[symbol] raises KeyError when the other
\* thread has deleted the entry meanwhile.
UtsCancelled(c) ==
    /\ ctx[c].pc = "cancel"
    /\ \E cancelOk \in BOOLEAN :
          LET s == ConcSymbol
              st1 == cancel_order_by_id(StConc, s, ctx[c].old_id, cancelOk)
          IN  IF ~Has(sl_tracker, s)
              THEN CommitConc(st1, c, [Idle EXCEPT !.pc = "raised"])
              ELSE CommitConc([st1 EXCEPT !.sl_tracker = Del(@, s)], c,
                              [ctx[c] EXCEPT !.pc = "place"])

\* update_trailing_stop from the answer of the placement to its return.
UtsPlaced(c) ==
    /\ ctx[c].pc = "place"
    /\ nextId <= MaxOrders
    /\ \E placeOk \in BOOLEAN :
          LET s == ConcSymbol
              st2 == place_stop_loss_order(StConc, s, ctx[c].sl_side, ctx[c].quantity,
                                           ctx[c].stop_price, placeOk)
              st3 == IF st2.ret # None
                     THEN [st2 EXCEPT !.sl_tracker = Put(@, s, st2.ret)]
                     ELSE st2
          IN  CommitConc(Returned(st3, c), c, [Idle EXCEPT !.pc = "done"])

NextConc ==
    \/ ExitStart
    \/ PriceStart
    \/ PriceProgress
    \/ \E c \in Threads : UtsQuery(c)
    \/ \E c \in Threads : UtsCancelled(c)
    \/ \E c \in Threads : UtsPlaced(c)

SpecConc == InitConc /\ [][NextConc]_vars

(***************************************************************************)
(* binance_rest.BinanceWebSocket: the stream handler that tracks the       *)
(* take-profit order.  app.py builds its stream client from                *)
(* binance_websocket.py; this class runs on its own here.                  *)
(***************************************************************************)

\* take_profit_percent = 0.5, in tenths of a percent
TRACKED_TAKE_PROFIT_PERCENT == 5

\* BinanceRESTClient.cancel_existing_tp: another status than 200 and any
\* exception are logged, and the caller is not told.
cancel_existing_tp(st, s, tp_order_id, ok) ==
    [st EXCEPT !.orders = IF ok THEN {o \in @ : o.id # tp_order_id} ELSE @,
               !.calls = Append(@, [op |-> "cancel_tp", s |-> s, id |-> tp_order_id, ok |-> ok]),
               !.ret = None]

\* BinanceWebSocket.place_take_profit_order of binance_rest.py: the same
\* request, and update_tp_tracker on status 200.
tracked_place_take_profit_order(st, s, side, quantity, take_profit_price, ok) ==
    LET st1 == place_take_profit_order(st, s, side, Num(quantity), take_profit_price, ok)
    IN  IF st1.ret # None
        THEN [st1 EXCEPT !.tp_tracker = Put(@, s, st1.ret)]
        ELSE st1

ensure_single_tp_order(st, s, side, quantity, take_profit_price, cancelOk, placeOk) ==
    LET st1 == IF Has(st.tp_tracker, s)
               THEN cancel_existing_tp(st, s, st.tp_tracker[s], cancelOk)
               ELSE st
    IN  tracked_place_take_profit_order(st1, s, side, quantity, take_profit_price, placeOk)

tracked_handle_order_trade_update(st, ev, cancelOk, placeOk) ==
    IF ev.X = "FILLED" /\ ev.ot = "MARKET"
    THEN ensure_single_tp_order(st, ev.s, Opposite(ev.S), ev.z,
                                TargetPrice(ev.S = "BUY", ev.ap, TRACKED_TAKE_PROFIT_PERCENT),
                                cancelOk, placeOk)
    ELSE st

\* pa is the position amount the event carries for s.
tracked_handle_account_update(st, s, pa) ==
    IF pa = 0 /\ Has(st.tp_tracker, s)
    THEN [st EXCEPT !.tp_tracker = Del(@, s)]
    ELSE st

\* A market order of the account is filled: the position moves and the
\* exchange pushes the fill on the user stream.
TpMarketFill ==
    /\ Len(stream) < MaxQueue
    /\ \E s \in Symbols, side \in Sides, fp \in FillPrices :
          /\ Abs(position[s] + Signed(side, 1)) <= MaxPos
          /\ Commit([St EXCEPT !.position[s] = @ + Signed(side, 1),
                               !.stream = Append(@, FillEvent(s, "MARKET", side, fp) @@ [z |-> 1])],
                    Last("exchange_fill", s, "MARKET", None, fp, "ok"))

TpOrderTradeUpdate ==
    /\ stream # <<>>
    /\ nextId <= MaxOrders + 1
    /\ LET ev == Head(stream)
       IN  \E cancelOk \in IF Has(tp_tracker, ev.s) /\ ev.ot = "MARKET" THEN BOOLEAN ELSE {TRUE} :
           \E placeOk \in IF ev.ot = "MARKET" THEN BOOLEAN ELSE {FALSE} :
              Commit([tracked_handle_order_trade_update(St, ev, cancelOk, placeOk)
                         EXCEPT !.stream = Tail(@)],
                     Last("order_trade_update", ev.s, ev.ot, None, ev.ap, "ok"))

TpAccountUpdate ==
    \E s \in Symbols :
        Commit(tracked_handle_account_update(St, s, position[s]),
               Last("account_update", s, "none", None, None, "ok"))

\* The exchange triggers a live take-profit order.
TpExchangeFill ==
    /\ Len(stream) < MaxQueue
    /\ \E o \in orders :
          /\ o.kind = "TP"
          /\ Abs(position[o.s] + Signed(o.side, o.qty)) <= MaxPos
          /\ Commit([St EXCEPT !.orders = @ \ {o},
                               !.position[o.s] = @ + Signed(o.side, o.qty),
                               !.stream = Append(@, FillEvent(o.s, "TAKE_PROFIT_MARKET", o.side, 0)
                                                      @@ [z |-> o.qty])],
                    Last("exchange_fill", o.s, "TAKE_PROFIT_MARKET", None, None, "ok"))

NextTp ==
    \/ TpMarketFill
    \/ TpOrderTradeUpdate
    \/ TpAccountUpdate
    \/ TpExchangeFill

SpecTp == Init /\ [][NextTp]_vars

(***************************************************************************)
(* Properties of the engine.                                               *)
(***************************************************************************)
LiveStops(s) == {o \in orders : o.kind = "SL" /\ o.s = s}
LiveTakeProfits(s) == {o \in orders : o.kind = "TP" /\ o.s = s}
Ops(cs) == [i \in 1..Len(cs) |-> cs[i].op]
Enabled(d, s) == Has(d, s) /\ d[s]

\* The stop placements a handler asked for, confirmed or not.
StopRequests(cs, s) == SelectSeq(cs, LAMBDA c : c.op = "place_sl" /\ c.s = s)

\* C1: with the handlers run one at a time, every symbol has at most one
\* live stop-loss order on the exchange.
C1_AtMostOneLiveStop ==
    \A s \in Symbols : Cardinality(LiveStops(s)) <= 1

\* C2: at most one take-profit order of a symbol is live on the exchange.
C2_AtMostOneLiveTakeProfit ==
    \A s \in Symbols : Cardinality(LiveTakeProfits(s)) <= 1

\* C4: an EXIT for a symbol with a recorded entry at t0: when t1 - t0 < 3 the
\* handler sets trailing_stop_enabled and issues neither cancel-all nor a
\* close; when t1 - t0 >= 3 it issues cancel-all, then the close, and leaves
\* trailing_stop_enabled as it was.
C4_ExitDedup ==
    [][\A s \in Symbols :
          (last'.h = "webhook" /\ last'.trade_type = "EXIT" /\ last'.s = s /\ Has(last_signal, s))
          => IF last'.ts - last_signal[s].payload.timestamp.v < 3
             THEN /\ Enabled(trailing_stop_enabled', s)
                  /\ \A i \in 1..Len(calls') : calls'[i].op \notin {"cancel_all", "close_position"}
             ELSE /\ Ops(calls') = <<"cancel_all", "close_position">>
                  /\ trailing_stop_enabled' = trailing_stop_enabled]_vars

C4_Witness ==
    /\ last.h = "webhook" /\ last.trade_type = "EXIT" /\ last.ts = 3
    /\ Len(calls) = 2 /\ calls[1].op = "cancel_all"
    /\ calls[2].op = "close_position" /\ calls[2].sent
    /\ position[last.s] = 0

\* C5: once a stream event that shows the position of a symbol at zero has
\* been processed, the position state and the tracker of the symbol are empty.
C5_FlatClearsState ==
    \A s \in Symbols :
        (/\ last.s = s
         /\ \/ last.h = "account_update"
            \/ last.h = "order_trade_update" /\ last.trade_type = "MARKET"
         /\ position[s] = 0)
        => /\ ~Has(entry_price, s)
           /\ ~Has(tp_target_price, s)
           /\ ~Has(best_price, s)
           /\ ~Has(trailing_stop_enabled, s)
           /\ ~Has(trailing_progress, s)
           /\ ~Has(sl_tracker, s)

\* Progress from entry to target at price p, as the claims define it, has
\* reached the 50 percent threshold.
ProgressReached(s, p) ==
    /\ Has(entry_price, s) /\ Has(tp_target_price, s) /\ position[s] # 0
    /\ LET travelled == IF position[s] > 0 THEN p - entry_price[s] ELSE entry_price[s] - p
           toTarget == IF position[s] > 0 THEN tp_target_price[s] - entry_price[s]
                       ELSE entry_price[s] - tp_target_price[s]
       IN  toTarget > 0 /\ 2 * travelled >= toTarget

\* The price p offset by the trailing percent (0.2), on the side of the position.
TrailOffset(s, p) ==
    IF position[s] > 0 THEN (p * 998) \div 1000 ELSE (p * 1002) \div 1000

C9_StopMovesInFavour ==
    [][\A s \in Symbols :
          (/\ Has(prevStop, s) /\ Has(prevStop', s)
           /\ PlacedStops(calls', s) # <<>>)
          => IF position[s] > 0 THEN prevStop'[s] >= prevStop[s]
                                ELSE prevStop'[s] <= prevStop[s]]_vars

\* C10 as claimed: a stop order is placed only for a symbol that an instant
\* EXIT armed before, and only at a price update whose progress has reached
\* the threshold.
C10_StopOnlyArmedAndProgressed ==
    [][\A s \in Symbols :
          StopRequests(calls', s) # <<>>
          => /\ last'.h = "price_update"
             /\ Enabled(trailing_stop_enabled, s)
             /\ ProgressReached(s, last'.price)]_vars

\* C10 as amended: a stop order is placed only by a step that sets
\* trailing_stop_enabled, and that step is either an EXIT within 3 seconds of
\* the recorded entry while no stop id is tracked (whatever the progress), or
\* a price update whose progress has reached the threshold while
\* trailing_progress is 0 (whether or not an EXIT armed the symbol).
C10_StopOnlyInstantExitOrThreshold ==
    [][\A s \in Symbols :
          StopRequests(calls', s) # <<>>
          => /\ Enabled(trailing_stop_enabled', s)
             /\ \/ /\ last'.h = "webhook" /\ last'.trade_type = "EXIT"
                   /\ Has(last_signal, s)
                   /\ last'.ts - last_signal[s].payload.timestamp.v < 3
                   /\ ~Has(sl_tracker, s)
                \/ /\ last'.h = "price_update"
                   /\ ProgressReached(s, last'.price)
                   /\ Get(trailing_progress, s, 0) = 0]_vars

C10_Witness ==
    /\ last.h = "webhook" /\ last.trade_type = "EXIT" /\ last.status = "trailing_enabled"
    /\ StopRequests(calls, last.s) # <<>>
    /\ ~Has(entry_price, last.s)
    /\ Has(sl_tracker, last.s)

Quiet == \A c \in Threads : ctx[c].pc \in {"idle", "done", "raised"}
EveryCancelDone == \A i \in 1..Len(calls) : calls[i].op = "cancel_order" => calls[i].ok

\* C3: with the instant-EXIT path and the stream-side controller of one
\* symbol running concurrently, no interleaving reaches a state with two
\* live stop orders of the symbol, or, once both have returned, a live stop
\* order whose id sl_tracker does not hold (every cancel having gone through).
C3_ReplaceIsAtomic ==
    EveryCancelDone =>
        /\ Cardinality(LiveStops(ConcSymbol)) <= 1
        /\ Quiet => \A o \in LiveStops(ConcSymbol) :
                        Has(sl_tracker, ConcSymbol) /\ sl_tracker[ConcSymbol] = o.id

\* The starting state of the threads that has a tracked stop is a state of
\* the engine (the other is the engine after one BUY and its fill).
ConcStartReached ==
    /\ position[ConcSymbol] = 2
    /\ sl_tracker = Put(EmptyDict, ConcSymbol, 1)
    /\ orders = {[id |-> 1, kind |-> "SL", s |-> ConcSymbol, side |-> "SELL",
                  qty |-> 1, price |-> 0]}
    /\ nextId = 2
    /\ trailing_stop_enabled = Put(EmptyDict, ConcSymbol, TRUE)
    /\ trailing_progress = Put(EmptyDict, ConcSymbol, 0)
    /\ best_price = EmptyDict
    /\ entry_price = Put(EmptyDict, ConcSymbol, 200000)
    /\ tp_target_price = Put(EmptyDict, ConcSymbol, 201000)
    /\ last_signal = Put(EmptyDict, ConcSymbol,
                         [payload |-> [timestamp |-> Str(0), quantity |-> 1],
                          order_response |-> [ok |-> TRUE, avgPrice |-> 200000]])
    /\ stream = <<>>

\* C11: once the ORDER_TRADE_UPDATE of a filled STOP_MARKET order has been
\* processed, sl_tracker has no entry for the symbol and a full close of the
\* position was requested; once that of a filled TAKE_PROFIT_MARKET order has
\* been processed, the take-profit tracker has no entry for the symbol.
C11_ProtectiveFillClearsTracker ==
    \A s \in Symbols :
        (last.h = "order_trade_update" /\ last.s = s)
        => /\ last.trade_type = "STOP_MARKET" =>
                 /\ ~Has(sl_tracker, s)
                 /\ \E i \in 1..Len(calls) : calls[i].op = "close_position" /\ calls[i].s = s
           /\ last.trade_type = "TAKE_PROFIT_MARKET" => ~Has(tp_tracker, s)

\* C12: every EXIT that is not within 3 seconds of a recorded entry signal,
\* the EXIT of a symbol without a record included, issues cancel-all and then
\* the close, in that order.
C12_NormalExitCancelsThenCloses ==
    [][\A s \in Symbols :
          (/\ last'.h = "webhook" /\ last'.trade_type = "EXIT" /\ last'.s = s
           /\ ~(Has(last_signal, s) /\ last'.ts - last_signal[s].payload.timestamp.v < 3))
          => Ops(calls') = <<"cancel_all", "close_position">>]_vars

\* C13: every stop-loss and take-profit request is marked reduce-only, and
\* no fill of a protective order increases the exposure of the symbol.
C13_ProtectiveOrdersReduceOnly ==
    [][/\ \A i \in 1..Len(calls') :
             calls'[i].op \in {"place_sl", "place_tp"} => calls'[i].reduceOnly
       /\ \A s \in Symbols :
             (last'.h = "exchange_fill" /\ last'.s = s)
             => Abs(position'[s]) <= Abs(position[s])]_vars

(***************************************************************************)
(* The values an order request carries.  place_take_profit_order formats   *)
(* the trigger price with two decimals and the quantity with one;          *)
(* place_market_order formats the quantity with one decimal.  No step size *)
(* or tick size of the symbol is read.  Raw prices are in units of 0.001   *)
(* and raw quantities in units of 0.01.  A decimal that ends in 5 is not a *)
(* tie of the float that stands for it, which lies just below or just      *)
(* above it (or on it): the format then gives either neighbour.            *)
(***************************************************************************)
RawPrices == 24370..24389
RawQuantities == 0..29

Formatted(x, nearest) ==
    IF x % 10 = 5 THEN {x - 5, x + 5} ELSE {nearest}

InitFmt ==
    /\ InitEngine
    /\ alert = NoAlert
    /\ parsed = [done |-> FALSE, ok |-> FALSE]
    /\ ctx = [c \in Threads |-> Idle]
    /\ tp_tracker = EmptyDict
    /\ signing = NoSigning
    /\ sup = NoSup
    /\ \E p \in RawPrices, q \in RawQuantities :
          fmt = [NoFmt EXCEPT !.raw_price = p, !.raw_quantity = q]

\* tp_params of place_take_profit_order: "stopPrice" and "quantity".
FormatRequest ==
    /\ ~fmt.done
    /\ \E sp \in Formatted(fmt.raw_price, Fmt2(fmt.raw_price)),
          qty \in Formatted(fmt.raw_quantity, Fmt1(fmt.raw_quantity)) :
          fmt' = [fmt EXCEPT !.done = TRUE, !.stopPrice = sp, !.quantity = qty]
    /\ UNCHANGED <<last_signal, sl_tracker, best_price, trailing_stop_enabled, entry_price,
                   tp_target_price, trailing_progress, position, orders, nextId, stream,
                   last, calls, prevStop, alert, parsed, ctx, tp_tracker, signing, sup>>

NextFmt == FormatRequest

SpecFmt == InitFmt /\ [][NextFmt]_vars

\* The largest multiple of 10 units that does not exceed x.
FloorToGrid(x) == x - (x % 10)

\* C14: the quantity sent is the largest multiple of the step size (0.1) that
\* does not exceed the raw quantity, and the trigger price sent is the
\* largest multiple of the tick size (0.01) that does not exceed the raw price.
C14_RoundedDownToGrid ==
    fmt.done =>
        /\ fmt.quantity = FloorToGrid(fmt.raw_quantity)
        /\ fmt.stopPrice = FloorToGrid(fmt.raw_price)
        /\ fmt.quantity <= fmt.raw_quantity
        /\ fmt.stopPrice <= fmt.raw_price

(***************************************************************************)
(* BinanceRESTClient.create_signature.  A parameter map is the sequence of *)
(* its <<key, value>> items in insertion order, keys and values being      *)
(* sequences of characters.  HMAC-SHA256 is taken as an ideal keyed hash:  *)
(* its digest stands for the key and the message it was made from.         *)
(***************************************************************************)
SigKeys == {<<"a">>, <<"b">>}
SigChars == {"b", "&", "="}
SigValues == UNION {[1..n -> SigChars] : n \in 0..(MaxLen - 1)}
SigItems == SigKeys \X SigValues
ParamMaps ==
    {<<>>} \cup {<<i>> : i \in SigItems}
           \cup {p \in {<<i, j>> : i \in SigItems, j \in SigItems} : p[1][1] # p[2][1]}

\* The same map, the map with one value changed, the map in another order.
Variants(params) ==
    {params}
        \cup {[params EXCEPT ![n] = <<params[n][1], v>>] : n \in 1..Len(params), v \in SigValues}
        \cup (IF Len(params) = 2 THEN {<<params[2], params[1]>>} ELSE {})

RECURSIVE Join(_)
\* "&".join(parts)
Join(parts) ==
    IF parts = <<>> THEN <<>>
    ELSE IF Len(parts) = 1 THEN parts[1]
    ELSE parts[1] \o <<"&">> \o Join(Tail(parts))

\* A signed string built from the items in the order of their keys.
QueryString_Sorted(params) ==
    LET sorted == IF Len(params) = 2 /\ params[1][1] = <<"b">>
                  THEN <<params[2], params[1]>>
                  ELSE params
    IN  Join([i \in 1..Len(sorted) |-> sorted[i][1] \o <<"=">> \o sorted[i][2]])

\* query_string = "&".join([f"{k}={v}" for k, v in params.items()])
QueryString(params) ==
    Join([i \in 1..Len(params) |-> params[i][1] \o <<"=">> \o params[i][2]])

hmac_sha256(key, msg) == [key |-> key, msg |-> msg]

secret_key == "BINANCE_SECRET_KEY"

create_signature(params) == hmac_sha256(secret_key, QueryString(params))

InitSign ==
    /\ InitEngine
    /\ alert = NoAlert
    /\ parsed = [done |-> FALSE, ok |-> FALSE]
    /\ ctx = [c \in Threads |-> Idle]
    /\ tp_tracker = EmptyDict
    /\ fmt = NoFmt
    /\ sup = NoSup
    /\ \E p1 \in ParamMaps : \E p2 \in Variants(p1) :
          signing = [done |-> FALSE, p1 |-> p1, p2 |-> p2]

\* Two requests are signed, one after the other.
SignRequests ==
    /\ ~signing.done
    /\ signing' = [done |-> TRUE, p1 |-> signing.p1, p2 |-> signing.p2,
                   qs1 |-> QueryString(signing.p1), qs2 |-> QueryString(signing.p2),
                   sig1 |-> create_signature(signing.p1),
                   sig2 |-> create_signature(signing.p2)]
    /\ UNCHANGED <<last_signal, sl_tracker, best_price, trailing_stop_enabled, entry_price,
                   tp_target_price, trailing_progress, position, orders, nextId, stream,
                   last, calls, prevStop, alert, parsed, ctx, tp_tracker, fmt, sup>>

NextSign == SignRequests

SpecSign == InitSign /\ [][NextSign]_vars

\* Where item n of the map begins in the signed string, less one.
RECURSIVE ItemOffset(_, _)
ItemOffset(params, n) ==
    IF n = 1 THEN 0
    ELSE ItemOffset(params, n - 1) + Len(params[n - 1][1]) + Len(params[n - 1][2]) + 2

\* qs is the key=value pairs of params joined by "&" in insertion order.
IsSignedString(qs, params) ==
    LET n == Len(params)
    IN  /\ Len(qs) = IF n = 0 THEN 0 ELSE ItemOffset(params, n + 1) - 1
        /\ \A i \in 1..n :
              LET off == ItemOffset(params, i)
                  k == params[i][1]
                  v == params[i][2]
              IN  /\ SubSeq(qs, off + 1, off + Len(k)) = k
                  /\ qs[off + Len(k) + 1] = "="
                  /\ SubSeq(qs, off + Len(k) + 2, off + Len(k) + 1 + Len(v)) = v
                  /\ i < n => qs[off + Len(k) + Len(v) + 2] = "&"

\* C15: the signed string is the key=value pairs joined by "&" in insertion
\* order; the same map gives the same signature, and a map with one value
\* changed or with its items in another order gives another signed string
\* and another signature.
C15_SignatureFollowsOrderedParams ==
    signing.done =>
        /\ IsSignedString(signing.qs1, signing.p1)
        /\ IsSignedString(signing.qs2, signing.p2)
        /\ signing.p1 = signing.p2 => signing.sig1 = signing.sig2
        /\ signing.p1 # signing.p2 =>
              /\ signing.qs1 # signing.qs2
              /\ signing.sig1 # signing.sig2

C15_Witness ==
    /\ signing.done
    /\ Len(signing.p1) = 2
    /\ signing.p2 = <<signing.p1[2], signing.p1[1]>>
    /\ signing.p1[1][2] = <<"&", "b">>
    /\ signing.p1[2][2] = <<"=">>
    /\ signing.sig1 # signing.sig2

\* The step handles the fill event of the entry that the webhook placed in
\* the step before: the event is the only one in flight.
EntryFillHandled(s) ==
    /\ last.h = "webhook" /\ last.s = s /\ last.trade_type \in Sides /\ last.status = "ok"
    /\ last'.h = "order_trade_update" /\ last'.s = s /\ last'.trade_type = "MARKET"

\* C16: for an entry filled at P with take-profit percent T, the take-profit
\* order of process_buy_sell_signal and tp_target_price after the fill event
\* are both P*(1+T/100) for a BUY entry and P*(1-T/100) for a SELL entry;
\* a trailing stop is a SELL below the reference price for a long and a BUY
\* above it for a short.
C16_TargetsFollowEntrySideAndPercent ==
    [][\A s \in Symbols :
          /\ EntryFillHandled(s) =>
                \A i \in 1..Len(calls) :
                    calls[i].op = "place_tp" =>
                        \E T \in TakeProfits \ {0} :
                            LET target == TargetPrice(last.trade_type = "BUY", last'.price, T)
                            IN  /\ calls[i].price = target
                                /\ calls[i].side = Opposite(last.trade_type)
                                /\ Has(tp_target_price', s)
                                /\ tp_target_price'[s] = target
          /\ (last'.h = "price_update" /\ last'.s = s) =>
                \A i \in 1..Len(calls') :
                    calls'[i].op = "place_sl" =>
                        IF position[s] > 0
                        THEN calls'[i].side = "SELL" /\ calls'[i].price < last'.price
                        ELSE calls'[i].side = "BUY" /\ calls'[i].price > last'.price]_vars

\* The last step was the webhook of a BUY/SELL alert for s.
EntryWebhookDone(s) == last.h = "webhook" /\ last.s = s /\ last.trade_type \in Sides

\* The entry market order of the last step was accepted by the exchange.
EntryAccepted(s) ==
    \E i \in 1..Len(calls) : calls[i].op = "market" /\ calls[i].s = s /\ calls[i].ok

\* C17: when the processing of a signal fails -- the alert is malformed, the
\* entry market order raises or the exchange rejects it -- the webhook
\* answers with status "error", never with a success response.
C17_FailureAnswersError ==
    /\ (last.h = "webhook" /\ last.trade_type = "none") => last.status = "error"
    /\ \A s \in Symbols :
          (EntryWebhookDone(s) /\ ~EntryAccepted(s)) => last.status = "error"

\* The last step placed no take-profit order: the placement failed, raised
\* or was not asked for.
NoTakeProfitPlaced(s) ==
    ~\E i \in 1..Len(calls) : calls[i].op = "place_tp" /\ calls[i].s = s /\ calls[i].id # None

\* C18: when the entry market order of a BUY/SELL signal succeeds and the
\* take-profit placement that follows fails or raises, the webhook still
\* answers with the entry's response, the record stored for the symbol stays,
\* and no request of the step closes or undoes the entry.
C18_TakeProfitFailureKeepsEntry ==
    [][\A s \in Symbols :
          (EntryWebhookDone(s)' /\ EntryAccepted(s)' /\ NoTakeProfitPlaced(s)')
          => /\ last'.status = "ok"
             /\ Has(last_signal', s)
             /\ last_signal'[s].order_response.ok
             /\ last_signal'[s].payload.timestamp.v = last'.ts
             /\ Ops(calls') \in {<<"market">>, <<"market", "place_tp">>}
             /\ position'[s] = position[s] + Signed(last'.trade_type, 1)
             /\ orders' = orders]_vars

C18_Witness ==
    \E s \in Symbols :
        /\ EntryWebhookDone(s) /\ EntryAccepted(s)
        /\ \E i \in 1..Len(calls) : calls[i].op = "place_tp" /\ calls[i].id = None
        /\ Has(last_signal, s)
        /\ position[s] # 0

\* The MARKET order requests of the last step.
MarketRequests == {i \in 1..Len(calls) : calls[i].op = "market"}

\* C19: a BUY/SELL alert sends at most one MARKET entry order request: the
\* request is not sent again when it raised or the exchange rejected it.
C19_AtMostOneMarketRequest ==
    \A s \in Symbols :
        EntryWebhookDone(s) =>
            /\ Cardinality(MarketRequests) <= 1
            /\ last.status = "null" => \A i \in MarketRequests : ~calls[i].ok

C19_Witness ==
    \E s \in Symbols :
        /\ EntryWebhookDone(s)
        /\ last.status = "null"
        /\ Cardinality(MarketRequests) = 1
        /\ \A i \in MarketRequests : ~calls[i].ok /\ calls[i].s = s

\* The last step cancelled the tracked order of s with request op and then
\* failed to place its replacement with request place.
ReplaceFailed(s, op, place) ==
    \E i, j \in 1..Len(calls) :
        /\ i < j
        /\ calls[i].op = op /\ calls[i].s = s /\ calls[i].ok
        /\ calls[j].op = place /\ calls[j].s = s /\ calls[j].id = None

\* C20: after a replace that cancelled the tracked order and failed to place
\* the new one, the tracker holds no id for the symbol: neither sl_tracker
\* after update_trailing_stop nor tp_tracker after ensure_single_tp_order
\* still points at the cancelled order.
C20_FailedReplaceLeavesNoId ==
    \A s \in Symbols :
        /\ ReplaceFailed(s, "cancel_order", "place_sl") => ~Has(sl_tracker, s)
        /\ ReplaceFailed(s, "cancel_tp", "place_tp") => ~Has(tp_tracker, s)

(***************************************************************************)
(* binance_websocket.BinanceWebSocket: start, reconnect and the renewal    *)
(* loop.  Every start() that obtains a listen key makes a thread that runs *)
(* WebSocketApp.run_forever and a thread that runs renew_listen_key.       *)
(* run_forever calls on_open, on_message, on_error and on_close in its own *)
(* thread.  A slot of sup.conn is one such thread:                         *)
(*   "free"         no thread                                              *)
(*   "connecting"   run_forever is opening the socket                      *)
(*   "open"         on_open has run, run_forever reads the socket          *)
(*   "rest"         inside on_message, waiting for the position query      *)
(*   "sleep_error"  inside on_error, in the time.sleep of reconnect        *)
(*   "sleep_close"  inside on_close, in the time.sleep of reconnect        *)
(***************************************************************************)
MaxConns == 3           \* threads of run_forever that exist at a time
MaxAttempts == 6        \* reconnect_attempts is counted up to here: 2^6 > 60
MaxRenewers == 2        \* renewal loops are counted up to here
MaxRefusals == 2        \* times the exchange refuses a listen key or a connection

BACKOFF_CAP == 60       \* wait = min(2 ** self.reconnect_attempts, 60)

Slots == 1..MaxConns
FreeSlot == [st |-> "free", teardown |-> FALSE, inbox |-> 0]

Min(a, b) == IF a < b THEN a ELSE b

Live(c) == c.st \in {"connecting", "open", "rest"}
Sleeping(c) == c.st \in {"sleep_error", "sleep_close"}

\* The connections start() still has to make for the callbacks that sleep.
RECURSIVE Owed(_, _)
Owed(su, n) ==
    IF n = 0 THEN su.renew_backoff
    ELSE Owed(su, n - 1)
         + (IF su.conn[n].st = "sleep_close" THEN 1
            ELSE IF su.conn[n].st = "sleep_error"
            THEN (IF su.conn[n].teardown THEN 2 ELSE 1)
            ELSE 0)

Used(su) == Cardinality({n \in Slots : su.conn[n].st # "free"})

\* Room for the connections that need more callbacks will ask for.
Room(su, need) == Used(su) + Owed(su, MaxConns) + need <= MaxConns

\* What get_listen_key can do: return a key, return None, raise.
KeyAnswers(su) ==
    IF su.refusals < MaxRefusals THEN {"key", "none", "raise"} ELSE {"key"}

\* BinanceWebSocket.start.  k is the outcome of get_listen_key.
start(su, k) ==
    IF k = "raise" THEN [su EXCEPT !.refusals = @ + 1]
    ELSE IF k = "none" THEN [su EXCEPT !.listen_key = "none", !.refusals = @ + 1]
    ELSE LET n == CHOOSE m \in Slots :
                     /\ su.conn[m].st = "free"
                     /\ \A l \in Slots : su.conn[l].st = "free" => m <= l
         IN  [su EXCEPT !.listen_key = "key",
                        !.conn[n] = [FreeSlot EXCEPT !.st = "connecting"],
                        !.renewers = Min(@ + 1, MaxRenewers)]

\* BinanceWebSocket.reconnect up to its time.sleep(wait).
reconnect(su) ==
    LET attempts == Min(su.reconnect_attempts + 1, MaxAttempts)
    IN  [su EXCEPT !.reconnect_attempts = attempts,
                   !.wait = Min(2 ^ attempts, BACKOFF_CAP)]

InitSup ==
    [started |-> FALSE, reconnect_attempts |-> 0, listen_key |-> "none",
     conn |-> [n \in Slots |-> FreeSlot], renewers |-> 0, renew_backoff |-> 0,
     wait |-> 0, refusals |-> 0]

InitWs ==
    /\ InitEngine
    /\ alert = NoAlert
    /\ parsed = [done |-> FALSE, ok |-> FALSE]
    /\ ctx = [c \in Threads |-> Idle]
    /\ tp_tracker = EmptyDict
    /\ fmt = NoFmt
    /\ signing = NoSigning
    /\ sup = InitSup

engineVars ==
    <<last_signal, sl_tracker, best_price, trailing_stop_enabled, entry_price,
      tp_target_price, trailing_progress, position, orders, nextId, stream,
      last, calls, prevStop, alert, parsed, ctx, tp_tracker, fmt, signing>>

\* app.py, __main__: ws_client.start()
MainStart ==
    /\ ~sup.started
    /\ \E k \in KeyAnswers(sup) : sup' = [start(sup, k) EXCEPT !.started = TRUE]
    /\ UNCHANGED engineVars

\* on_open: the socket is open.
OnOpen(n) ==
    /\ sup.conn[n].st = "connecting"
    /\ sup' = [sup EXCEPT !.conn[n].st = "open"]
    /\ UNCHANGED engineVars

\* The socket closes: on_close calls reconnect in the thread of run_forever.
OnClose(n) ==
    /\ sup.conn[n].st = "open"
    /\ Room(sup, 1)
    /\ sup' = [reconnect(sup) EXCEPT !.conn[n].st = "sleep_close", !.conn[n].inbox = 0]
    /\ UNCHANGED engineVars

\* The socket fails, or the exchange refuses the connection: on_error calls
\* reconnect in the thread of run_forever.  Whether run_forever calls
\* on_close as well when on_error has returned depends on the failure.
OnError(n) ==
    /\ sup.conn[n].st \in {"connecting", "open"}
    /\ sup.conn[n].st = "connecting" => sup.refusals < MaxRefusals
    /\ \E teardown \in BOOLEAN :
          /\ Room(sup, IF teardown THEN 2 ELSE 1)
          /\ sup' = [reconnect(sup) EXCEPT
                        !.conn[n].st = "sleep_error",
                        !.conn[n].teardown = teardown,
                        !.conn[n].inbox = 0,
                        !.refusals = IF sup.conn[n].st = "connecting" THEN @ + 1 ELSE @]
    /\ UNCHANGED engineVars

\* time.sleep(wait) is over: reconnect calls start() and the callback
\* returns; after on_error it may be the turn of on_close.
Wake(n) ==
    /\ Sleeping(sup.conn[n])
    /\ \E k \in KeyAnswers(sup) :
          LET su == start(sup, k)
          IN  sup' = IF sup.conn[n].st = "sleep_error" /\ sup.conn[n].teardown
                     THEN [reconnect(su) EXCEPT !.conn[n].st = "sleep_close",
                                                !.conn[n].teardown = FALSE]
                     ELSE [su EXCEPT !.conn[n] = FreeSlot]
    /\ UNCHANGED engineVars

\* The exchange pushes an event on an open socket.
Arrive(n) ==
    /\ sup.conn[n].st \in {"open", "rest"}
    /\ sup.conn[n].inbox < MaxQueue
    /\ sup' = [sup EXCEPT !.conn[n].inbox = @ + 1]
    /\ UNCHANGED engineVars

\* on_message: handle_order_trade_update asks for the position and waits.
Deliver(n) ==
    /\ sup.conn[n].st = "open"
    /\ sup.conn[n].inbox > 0
    /\ sup' = [sup EXCEPT !.conn[n].st = "rest", !.conn[n].inbox = @ - 1]
    /\ UNCHANGED engineVars

\* The position query answers: the handler returns to run_forever.
RestReturn(n) ==
    /\ sup.conn[n].st = "rest"
    /\ sup' = [sup EXCEPT !.conn[n].st = "open"]
    /\ UNCHANGED engineVars

\* renew_listen_key: the renewal raises and the loop calls reconnect.
RenewFail ==
    /\ sup.renewers - sup.renew_backoff > 0
    /\ sup.listen_key = "key"
    /\ Room(sup, 1)
    /\ sup' = [reconnect(sup) EXCEPT !.renew_backoff = @ + 1]
    /\ UNCHANGED engineVars

\* The sleep of that reconnect is over: start(), and the loop goes on.
RenewWake ==
    /\ sup.renew_backoff > 0
    /\ \E k \in KeyAnswers(sup) :
          sup' = [start(sup, k) EXCEPT !.renew_backoff = sup.renew_backoff - 1]
    /\ UNCHANGED engineVars

NextWs ==
    \/ MainStart
    \/ \E n \in Slots : OnOpen(n)
    \/ \E n \in Slots : OnClose(n)
    \/ \E n \in Slots : OnError(n)
    \/ \E n \in Slots : Wake(n)
    \/ \E n \in Slots : Arrive(n)
    \/ \E n \in Slots : Deliver(n)
    \/ \E n \in Slots : RestReturn(n)
    \/ RenewFail
    \/ RenewWake

SpecWs == InitWs /\ [][NextWs]_vars

\* The threads take their steps, and the exchange accepts a connection it
\* is asked for; when a socket fails is up to the network.
FairSpecWs ==
    /\ SpecWs
    /\ WF_vars(MainStart)
    /\ WF_vars(\E n \in Slots : OnOpen(n))
    /\ WF_vars(\E n \in Slots : Wake(n))
    /\ WF_vars(\E n \in Slots : RestReturn(n))
    /\ WF_vars(RenewWake)

\* C21: the wait of a reconnect is min(2^attempts, 60), and reconnect_attempts
\* is back at 0 when a stream has opened.
C21_BackoffResetsOnOpen ==
    [][/\ sup'.wait \in {0, Min(2 ^ sup'.reconnect_attempts, BACKOFF_CAP)}
       /\ \A n \in Slots :
             (sup.conn[n].st = "connecting" /\ sup'.conn[n].st = "open")
             => sup'.reconnect_attempts = 0]_vars

LiveConnections == {n \in Slots : Live(sup.conn[n])}

\* C22: at any time there is at most one live stream connection and at most
\* one renewal loop.
C22_OneConnectionOneRenewer ==
    /\ Cardinality(LiveConnections) <= 1
    /\ sup.renewers <= 1

StreamDown == \E n \in Slots : Sleeping(sup.conn[n])
StreamOpen == \E n \in Slots : sup.conn[n].st \in {"open", "rest"}

\* C23: after the stream closed or failed, and with an exchange that refuses
\* only finitely often, the stream is open again at some later time.
C23_ReconnectsUntilOpen == StreamDown ~> StreamOpen

\* C24: the thread that delivers the stream's events never waits for a REST
\* answer or in the sleep of reconnect, so an event that has arrived on an
\* open socket is handed to on_message without waiting.
C24_DeliveryNeverBlocks ==
    \A n \in Slots :
        /\ sup.conn[n].st \notin {"rest", "sleep_error", "sleep_close"}
        /\ sup.conn[n].inbox > 0 => sup.conn[n].st = "open"

(***************************************************************************)
(* Further properties of the engine.                                       *)
(***************************************************************************)

\* The position query of the step failed: it answered 0.0 for a symbol
\* whose position is not flat.
PositionQueryFailed(s) ==
    /\ position[s] # 0
    /\ \E i \in 1..Len(calls') :
          calls'[i].op = "get_position" /\ calls'[i].s = s /\ calls'[i].ans = 0

\* C25: a position amount of 0 that get_position_amt returns because the
\* query failed is not taken for a flat position: the handler of a MARKET
\* fill does not discard entry_price and tp_target_price of the symbol.
C25_FailedQueryIsNotFlat ==
    [][\A s \in Symbols :
          (/\ last'.h = "order_trade_update" /\ last'.s = s /\ last'.trade_type = "MARKET"
           /\ PositionQueryFailed(s))
          => /\ Has(entry_price, s) => Has(entry_price', s)
             /\ Has(tp_target_price, s) => Has(tp_target_price', s)]_vars

\* The step is process_exit_signal for s.
ExitHandled(s) == last'.h = "webhook" /\ last'.trade_type = "EXIT" /\ last'.s = s

\* C26: an EXIT that process_exit_signal handles for a symbol with a record
\* removes the record, on every path, so that a later EXIT without a new
\* entry is never classified as instant.
C26_RecordConsumedByOneExit ==
    [][\A s \in Symbols :
          (ExitHandled(s) /\ Has(last_signal, s)) => ~Has(last_signal', s)]_vars

\* C27: the target tracked after an entry fill comes from the percent of the
\* signal: tp_target_price of the symbol equals the trigger price of the
\* take-profit order process_buy_sell_signal asked for, for the same price.
C27_TargetEqualsTakeProfitOrder ==
    [][\A s \in Symbols :
          EntryFillHandled(s) =>
              \A i \in 1..Len(calls) :
                  (/\ calls[i].op = "place_tp" /\ calls[i].s = s
                   /\ \E j \in 1..Len(calls') :
                         calls'[j].op = "get_position" /\ calls'[j].ans # 0)
                  => /\ Has(tp_target_price', s)
                     /\ tp_target_price'[s] = calls[i].price]_vars

\* C28: last_signal is written only for an entry the exchange acknowledged,
\* and an EXIT that meets the record of a failed entry neither enables
\* trailing nor asks for a stop.
C28_NoRecordForFailedEntry ==
    [][\A s \in Symbols :
          /\ (EntryWebhookDone(s)' /\ ~EntryAccepted(s)') => last_signal' = last_signal
          /\ (ExitHandled(s) /\ Has(last_signal, s) /\ ~last_signal[s].order_response.ok)
             => /\ trailing_stop_enabled' = trailing_stop_enabled
                /\ StopRequests(calls', s) = <<>>]_vars

\* C29: when process_exit_signal answers "trailing_enabled" for a symbol
\* with an open position, best_price is set for it and sl_tracker holds the
\* id of a live stop order.
C29_TrailingEnabledMeansStop ==
    \A s \in Symbols :
        (/\ last.h = "webhook" /\ last.s = s /\ last.status = "trailing_enabled"
         /\ position[s] # 0)
        => /\ Has(best_price, s)
           /\ Has(sl_tracker, s)
           /\ \E o \in LiveStops(s) : o.id = sl_tracker[s]

====
